---- MODULE Spec2Model ----
(***************************************************************************)
(* The door-lock cloud server (cloud_server.py) and its storage layer      *)
(* (mongo_config.py) as a state machine.  Each Flask route is one action;  *)
(* the pure helpers (validate_qr, recognize_face, ...) are operators.      *)
(*                                                                         *)
(* Numbers: distances and confidences are fixed-point, in thousandths, so  *)
(* One = 1000 stands for 1.0 and Threshold = 500 for 0.5.                  *)
(***************************************************************************)
EXTENDS Integers, Sequences, FiniteSets, TLC

VARIABLES
    phase,                  \* "boot" | "imported" | "crashed" | "serving"
    QR_HASH,                \* os.environ.get("QR_HASH")
    MONGO_URI,              \* os.environ.get("MONGO_URI")
    mongo_db,               \* None or the MongoDBConfig handle
    encodings_collection,   \* db["face_encodings"]: sequence of documents
    access_logs_collection, \* db["access_logs"]: sequence of documents
    known_face_encodings,
    known_face_names,
    encodings_loaded,
    session_cache,          \* dict session_id -> True
    now,                    \* the value datetime.now() returns
    last,                   \* the latest call: its inputs and its response
    users_collection,       \* db["users"]: sequence of documents
    reloader,               \* a thread inside load_faces_from_mongo
    matcher,                \* a thread inside recognize_face
    enroll                  \* the threads inside add_user / save_face_encoding

vars == <<phase, QR_HASH, MONGO_URI, mongo_db, encodings_collection,
          access_logs_collection, known_face_encodings, known_face_names,
          encodings_loaded, session_cache, now, last, users_collection,
          reloader, matcher, enroll>>

\* The threads whose steps are followed one by one.
threads == <<reloader, matcher, enroll>>

(***************************************************************************)
(* Bounds of the model.                                                    *)
(***************************************************************************)
MaxDocs == 2        \* documents in the face_encodings collection
MaxLog == 2         \* access-log documents written
MaxClock == 1       \* distinct later readings of the clock
MaxUsers == 3       \* documents in the users collection

(***************************************************************************)
(* Values.                                                                 *)
(***************************************************************************)
None == "<None>"                    \* Python's None, distinct from every str

One == 1000                         \* the 1 of "1 - distances[best_match]"
Threshold == 500                    \* the 0.5 of "confidence > 0.5"

\* hashlib.sha256(s.encode()).hexdigest(): a digest is itself a string, never
\* equal to its own preimage, and distinct preimages give distinct digests.
Sha256(s) == "sha256(" \o s \o ")"

\* hashlib.md5(str(t).encode()).hexdigest(): 32 hex characters, a function of
\* the clock reading alone.
Md5(t) == "md5(" \o ToString(t) \o ")"

\* Python truthiness of a str-or-None value: "if x" / "not x".
Truthy(x) == x # None /\ x # ""

EnvQrHash == {None, "", Sha256("ABC123"), Sha256("")}
EnvMongoUri == {None, "mongodb+srv://atlas"}

\* What decode_qr can hand to validate_qr.
QrPayloads == {None, "", "ABC123", "XYZ", Sha256("ABC123")}

ImageKinds == {"missing", "undecodable", "ok"}

\* Only a decodable image has content for the vision libraries to find.
DecodedQr(image) == IF image = "ok" THEN QrPayloads ELSE {None}

\* Face embeddings: vectors of two coordinates, in thousandths.  The stored
\* documents are what save_face_encoding accepts: any vector under any name,
\* the empty name included.  The probes lie at distances 0, 1, 250, 499, 500,
\* 1044 and 1400 from the stored vectors.
EncodingDocs == {[encoding |-> <<0, 0>>, user_name |-> "alice"],
                 [encoding |-> <<300, 400>>, user_name |-> ""]}
ProbeVectors == {<<0, 0>>, <<0, 1>>, <<150, 200>>, <<0, 1400>>}

\* What face_encodings can return for a frame: no face, or one face.
Frames == {<<>>} \cup {<<v>> : v \in ProbeVectors}

DecodedFaces(image) == IF image = "ok" THEN Frames ELSE {<<>>}

RECURSIVE SeqsUpTo(_, _)
SeqsUpTo(S, n) ==
    IF n = 0 THEN {<<>>}
    ELSE LET shorter == SeqsUpTo(S, n - 1)
         IN  shorter \cup {Append(s, x) : s \in {t \in shorter : Len(t) = n - 1}, x \in S}

(***************************************************************************)
(* mongo_config.py                                                         *)
(***************************************************************************)

\* get_all_face_encodings returning its two lists as they are when the
\* cursor raises: on the last document, between the two appends.
get_all_face_encodings_partial(coll, raises) ==
    IF raises
    THEN << [i \in 1..Len(coll) |-> coll[i].encoding],
            [i \in 1..(Len(coll) - 1) |-> coll[i].user_name] >>
    ELSE << [i \in 1..Len(coll) |-> coll[i].encoding],
            [i \in 1..Len(coll) |-> coll[i].user_name] >>

\* get_all_face_encodings: the two parallel lists, or ([], []) when the
\* cursor raises anywhere during the iteration.
get_all_face_encodings(coll, raises) ==
    IF raises
    THEN <<(<<>>), (<<>>)>>
    ELSE << [i \in 1..Len(coll) |-> coll[i].encoding],
            [i \in 1..Len(coll) |-> coll[i].user_name] >>

\* log_access writing nothing for a denial.
log_access_grants_only(logs, user_name, status, access_type, insertOk) ==
    IF insertOk /\ status = "opened"
    THEN Append(logs, [user_name |-> user_name, status |-> status,
                       access_type |-> access_type, confidence |-> None])
    ELSE logs

\* log_access keeping the latest document only.
log_access_overwrites(logs, user_name, status, access_type, insertOk) ==
    IF insertOk
    THEN <<[user_name |-> user_name, status |-> status,
            access_type |-> access_type, confidence |-> None]>>
    ELSE logs

\* log_access: insert_one inside try/except; a failed insert is swallowed.
\* No caller passes a confidence.  The place of a document in the sequence
\* stands for its timestamp.
log_access(logs, user_name, status, access_type, insertOk) ==
    IF insertOk
    THEN Append(logs, [user_name |-> user_name, status |-> status,
                       access_type |-> access_type, confidence |-> None])
    ELSE logs

\* get_access_logs: find(query).sort("timestamp", -1).limit(limit), the
\* query selecting one user_name when a truthy one is given.  The latest
\* document comes first.
get_access_logs(logs, limit, user_name) ==
    LET found == IF Truthy(user_name)
                 THEN SelectSeq(logs, LAMBDA d : d.user_name = user_name)
                 ELSE logs
        n == Len(found)
        sorted == [i \in 1..n |-> found[n + 1 - i]]
    IN  SubSeq(sorted, 1, IF limit < n THEN limit ELSE n)

\* str(result.inserted_id): the n-th document inserted into a collection
\* gets an identifier no other document of the collection has.
ObjectId(n) == "ObjectId(" \o ToString(n) \o ")"

\* get_user_by_name: find_one({"name": name}), the document or nothing.
get_user_by_name(users, name) ==
    LET found == SelectSeq(users, LAMBDA u : u.name = name)
    IN  IF Len(found) = 0 THEN <<>> ELSE <<found[1]>>

\* users_collection.insert_one of a collection that has no index on name.
insert_one_user_unindexed(users, name) ==
    LET id == ObjectId(Len(users) + 1)
    IN  [users |-> Append(users, [_id |-> id, name |-> name]),
         inserted_id |-> <<id>>]

\* users_collection.insert_one of add_user, under the unique index on name
\* that _create_indexes makes: the insert raises DuplicateKeyError (no
\* inserted_id) when a document with the name exists.
insert_one_user(users, name) ==
    IF Len(get_user_by_name(users, name)) > 0
    THEN [users |-> users, inserted_id |-> <<>>]
    ELSE LET id == ObjectId(Len(users) + 1)
         IN  [users |-> Append(users, [_id |-> id, name |-> name]),
              inserted_id |-> <<id>>]

\* add_user: the insert, and in the except branch the lookup.
add_user(users, name) ==
    LET result == insert_one_user(users, name)
    IN  IF Len(result.inserted_id) > 0
        THEN [users |-> result.users, ret |-> result.inserted_id[1]]
        ELSE LET user == get_user_by_name(users, name)
             IN  [users |-> users,
                  ret |-> IF Len(user) > 0 THEN user[1]._id ELSE None]

\* The document save_face_encoding inserts (image_name and created_at left
\* out).
EncodingDoc(user_id, user_name, encoding) ==
    [user_id |-> user_id, user_name |-> user_name, encoding |-> encoding]

\* save_face_encoding run without interruption: the identity found or
\* created, then the insert of the document; when the insert raises, None is
\* returned and an identity just created stays.
SaveFaceEncoding(users, coll, user_name, encoding, insertOk) ==
    LET user == get_user_by_name(users, user_name)
        created == IF Len(user) > 0
                   THEN [users |-> users, ret |-> user[1]._id]
                   ELSE add_user(users, user_name)
    IN  IF insertOk
        THEN [users |-> created.users,
              coll |-> Append(coll, EncodingDoc(created.ret, user_name,
                                                encoding)),
              ret |-> ObjectId(Len(coll) + 1)]
        ELSE [users |-> created.users, coll |-> coll, ret |-> None]

(***************************************************************************)
(* cloud_server.py: helpers                                                *)
(***************************************************************************)

\* validate_qr without its digest comparison.
validate_qr_verbatim_only(qr_data) ==
    IF ~Truthy(qr_data) THEN FALSE
    ELSE qr_data = QR_HASH

validate_qr(qr_data) ==
    IF ~Truthy(qr_data) THEN FALSE
    ELSE IF qr_data = QR_HASH THEN TRUE
    ELSE Sha256(qr_data) = QR_HASH

\* Floor of the square root, by bisection of lo..hi (lo * lo <= n < hi * hi).
RECURSIVE SqrtBetween(_, _, _)
SqrtBetween(n, lo, hi) ==
    IF hi - lo <= 1 THEN lo
    ELSE LET mid == (lo + hi) \div 2
         IN  IF mid * mid <= n THEN SqrtBetween(n, mid, hi)
                               ELSE SqrtBetween(n, lo, mid)

\* 46340 is the largest root whose square TLC's 32-bit integers hold.
ISqrt(n) == SqrtBetween(n, 0, IF n < 46340 THEN n + 1 ELSE 46340)

\* face_recognition.face_distance: Euclidean norm of the difference, per row.
face_distance(encs, probe) ==
    [i \in 1..Len(encs) |->
        ISqrt((encs[i][1] - probe[1]) * (encs[i][1] - probe[1])
              + (encs[i][2] - probe[2]) * (encs[i][2] - probe[2]))]

\* np.argmin: a left-to-right scan keeping the first smallest element.
RECURSIVE ArgminScan(_, _, _)
ArgminScan(d, i, best) ==
    IF i > Len(d) THEN best
    ELSE ArgminScan(d, i + 1, IF d[i] < d[best] THEN i ELSE best)

argmin(d) == ArgminScan(d, 2, 1)

\* f"{confidence*100:.1f}%"
FormatPercent(c) == ToString(c \div 10) \o "." \o ToString(c % 10) \o "%"

\* recognize_face accepting a confidence of exactly the threshold.
recognize_face_at_threshold(encodings) ==
    IF ~encodings_loaded THEN <<None, "No encodings loaded">>
    ELSE IF Len(encodings) = 0 THEN <<None, "No face detected">>
    ELSE LET face_encoding == encodings[1]
             distances == face_distance(known_face_encodings, face_encoding)
             best_match == argmin(distances)
             confidence == One - distances[best_match]
         IN  IF confidence >= Threshold
             THEN <<known_face_names[best_match], FormatPercent(confidence)>>
             ELSE <<None, "Face not recognized">>

\* recognize_face, after the image was converted: encodings holds the
\* encoding of every face face_locations found, in the order found.
recognize_face(encodings) ==
    IF ~encodings_loaded THEN <<None, "No encodings loaded">>
    ELSE IF Len(encodings) = 0 THEN <<None, "No face detected">>
    ELSE LET face_encoding == encodings[1]
             distances == face_distance(known_face_encodings, face_encoding)
             best_match == argmin(distances)
             confidence == One - distances[best_match]
         IN  IF confidence > Threshold
             THEN <<known_face_names[best_match], FormatPercent(confidence)>>
             ELSE <<None, "Face not recognized">>

\* A new dict holding the one session, in place of an insertion.
StoreSession_fresh_dict(cache, session_id) == [s \in {session_id} |-> TRUE]

\* session_cache[session_id] = True
StoreSession(cache, session_id) ==
    [s \in (DOMAIN cache) \cup {session_id} |->
        IF s = session_id THEN TRUE ELSE cache[s]]

Response(code, body) == [code |-> code, body |-> body]

\* An exception that escapes a route: Flask answers 500.
ServerError == Response(500, [error |-> "Internal Server Error"])

\* The latest call: what the request carried, what the validator and the
\* matcher returned, and the response sent.
NoCall == [op |-> "none", image |-> None, qr_data |-> None, faces |-> <<>>,
           valid |-> FALSE, match |-> <<None, None>>,
           resp |-> Response(0, [none |-> TRUE])]

Call(op, image, qr_data, faces, valid, match, resp) ==
    [op |-> op, image |-> image, qr_data |-> qr_data, faces |-> faces,
     valid |-> valid, match |-> match, resp |-> resp]

\* A thread that is in none of the functions followed step by step.
ReloaderIdle == [pc |-> "idle", encodings |-> <<>>, names |-> <<>>]

MatcherIdle ==
    [pc |-> "idle", probe |-> <<0, 0>>, encodings |-> <<>>, names |-> <<>>,
     best_match |-> 0, confidence |-> 0, result |-> <<None, None>>]

EnrollIdle ==
    [pc |-> "idle", op |-> "none", user_name |-> None, encoding |-> <<0, 0>>,
     user |-> <<>>, raised |-> FALSE, user_id |-> None, ret |-> None]

EnrollThreads == {"t1", "t2"}

(***************************************************************************)
(* Start of the process                                                    *)
(***************************************************************************)

Init ==
    /\ phase = "boot"
    /\ QR_HASH \in EnvQrHash
    /\ MONGO_URI \in EnvMongoUri
    /\ mongo_db = None
    /\ encodings_collection \in SeqsUpTo(EncodingDocs, MaxDocs)
    /\ access_logs_collection = <<>>
    /\ known_face_encodings = <<>>
    /\ known_face_names = <<>>
    /\ encodings_loaded = FALSE
    /\ session_cache = [s \in {} |-> TRUE]
    /\ now = 0
    /\ last = NoCall
    /\ users_collection = <<>>
    /\ reloader = ReloaderIdle
    /\ matcher = MatcherIdle
    /\ enroll = [t \in EnrollThreads |-> EnrollIdle]

\* Module level, lines 31-33: a missing or empty QR_HASH raises RuntimeError
\* and the import of the module fails.
ReadEnv ==
    /\ phase = "boot"
    /\ phase' = IF ~Truthy(QR_HASH) THEN "crashed" ELSE "imported"
    /\ UNCHANGED <<users_collection, threads,
                   QR_HASH, MONGO_URI, mongo_db, encodings_collection,
                   access_logs_collection, known_face_encodings,
                   known_face_names, encodings_loaded, session_cache, now, last>>

\* The gallery: the three globals load_faces_from_mongo assigns.
Gallery ==
    [encodings |-> known_face_encodings, names |-> known_face_names,
     loaded |-> encodings_loaded]

\* A load that adds what it fetched to the gallery it finds.
Reloaded_extends(g, fetched) ==
    IF Len(fetched[1]) = 0 THEN g
    ELSE [encodings |-> g.encodings \o fetched[1],
          names |-> g.names \o fetched[2], loaded |-> TRUE]

\* The gallery load_faces_from_mongo leaves when it found g and fetched the
\* two lists: g itself after the early return of lines 74-76, the fetched
\* lists otherwise.
Reloaded(g, fetched) ==
    IF Len(fetched[1]) = 0 THEN g
    ELSE [encodings |-> fetched[1], names |-> fetched[2], loaded |-> TRUE]

\* The assignments of load_faces_from_mongo, as one step.
LoadFaces(fetched) ==
    LET g == Reloaded(Gallery, fetched)
    IN  /\ known_face_encodings' = g.encodings
        /\ known_face_names' = g.names
        /\ encodings_loaded' = g.loaded

\* initialize_system: every exception of the try block is printed and
\* swallowed, and the server is declared ready.
initialize_system ==
    /\ phase = "imported"
    /\ phase' = "serving"
    /\ \E connects \in BOOLEAN, raises \in BOOLEAN :
          IF Truthy(MONGO_URI) /\ connects
          THEN /\ mongo_db' = "MongoDBConfig"
               /\ LoadFaces(get_all_face_encodings(encodings_collection, raises))
          ELSE /\ mongo_db' = None
               /\ UNCHANGED <<known_face_encodings, known_face_names,
                              encodings_loaded>>
    /\ UNCHANGED <<users_collection, threads,
                   QR_HASH, MONGO_URI, encodings_collection,
                   access_logs_collection, session_cache, now, last>>

\* load_faces_from_mongo called again on a running server.
load_faces_from_mongo(raises) ==
    /\ phase = "serving"
    /\ mongo_db # None
    /\ LoadFaces(get_all_face_encodings(encodings_collection, raises))
    /\ last' = Call("load_faces_from_mongo", None, None, <<>>, FALSE,
                    <<None, None>>, Response(0, [none |-> TRUE]))
    /\ UNCHANGED <<users_collection, threads,
                   phase, QR_HASH, MONGO_URI, mongo_db, encodings_collection,
                   access_logs_collection, session_cache, now>>

\* The clock moves on between two calls, or does not.
Tick ==
    /\ phase = "serving"
    /\ now < MaxClock
    /\ now' = now + 1
    /\ UNCHANGED <<users_collection, threads,
                   phase, QR_HASH, MONGO_URI, mongo_db, encodings_collection,
                   access_logs_collection, known_face_encodings,
                   known_face_names, encodings_loaded, session_cache, last>>

(***************************************************************************)
(* cloud_server.py: routes                                                 *)
(***************************************************************************)

\* GET /
home ==
    /\ phase = "serving"
    /\ last' = Call("home", None, None, <<>>, FALSE, <<None, None>>,
                    Response(200, [service |-> "ESP32-CAM Door Lock",
                                   status |-> "running"]))
    /\ UNCHANGED <<users_collection, threads,
                   phase, QR_HASH, MONGO_URI, mongo_db, encodings_collection,
                   access_logs_collection, known_face_encodings,
                   known_face_names, encodings_loaded, session_cache, now>>

\* The status body counting the embeddings of the gallery.
StatusBody_counts_embeddings ==
    [online |-> TRUE,
     faces_loaded |-> encodings_loaded,
     known_faces |-> Len(known_face_names)]

\* GET /api/status, lines 144-148: len(set(known_face_names))
StatusBody ==
    [online |-> TRUE,
     faces_loaded |-> encodings_loaded,
     known_faces |-> Cardinality({known_face_names[i] :
                                     i \in 1..Len(known_face_names)})]

status ==
    /\ phase = "serving"
    /\ last' = Call("status", None, None, <<>>, FALSE, <<None, None>>,
                    Response(200, StatusBody))
    /\ UNCHANGED <<users_collection, threads,
                   phase, QR_HASH, MONGO_URI, mongo_db, encodings_collection,
                   access_logs_collection, known_face_encodings,
                   known_face_names, encodings_loaded, session_cache, now>>

\* What a route does, in the order it does it: the session it stores (none or
\* one), the log_access call it then makes (none or one), and the response
\* it returns when that call does not raise.
Outcome(valid, match, issue, log, resp) ==
    [valid |-> valid, match |-> match, issue |-> issue, log |-> log,
     resp |-> resp]

LogArgs(user_name, outcome, access_type) ==
    [user_name |-> user_name, status |-> outcome, access_type |-> access_type]

\* verify_qr issuing its session before it looks at the validator's answer.
verify_qr_outcome_issue_first(image, qr_data) ==
    IF image = "missing"
    THEN Outcome(FALSE, <<None, None>>, <<>>, <<>>,
                 Response(400, [error |-> "No image"]))
    ELSE IF image = "undecodable"
    THEN Outcome(FALSE, <<None, None>>, <<>>, <<>>, ServerError)
    ELSE IF validate_qr(qr_data)
    THEN Outcome(TRUE, <<None, None>>, <<Md5(now)>>,
                 <<LogArgs("QR", "opened", "qr")>>,
                 Response(200, [valid |-> TRUE, session_id |-> Md5(now)]))
    ELSE Outcome(FALSE, <<None, None>>, <<Md5(now)>>,
                 <<LogArgs("QR", "denied", "qr")>>,
                 Response(200, [valid |-> FALSE]))

\* POST /api/verify-qr, lines 154-180.  image says what the request carried;
\* qr_data is what decode_qr returns for a decodable image.
verify_qr_outcome(image, qr_data) ==
    IF image = "missing"
    THEN Outcome(FALSE, <<None, None>>, <<>>, <<>>,
                 Response(400, [error |-> "No image"]))
    ELSE IF image = "undecodable"
    \* cv2.imdecode gives None and cv2.cvtColor raises inside decode_qr
    THEN Outcome(FALSE, <<None, None>>, <<>>, <<>>, ServerError)
    ELSE IF validate_qr(qr_data)
    THEN LET session_id == Md5(now)
         IN  Outcome(TRUE, <<None, None>>, <<session_id>>,
                     <<LogArgs("QR", "opened", "qr")>>,
                     Response(200, [valid |-> TRUE, session_id |-> session_id]))
    ELSE Outcome(FALSE, <<None, None>>, <<>>,
                 <<LogArgs("QR", "denied", "qr")>>,
                 Response(200, [valid |-> FALSE]))

\* POST /api/recognize-face, lines 190-214: the route past its guard.  faces
\* holds the encodings of the faces a decodable image shows.
FaceDecision(image, faces) ==
    IF image = "missing"
    THEN Outcome(FALSE, <<None, None>>, <<>>, <<>>,
                 Response(400, [error |-> "No image"]))
    ELSE IF image = "undecodable"
    \* cv2.imdecode gives None and cv2.cvtColor raises inside recognize_face
    THEN Outcome(FALSE, <<None, None>>, <<>>, <<>>, ServerError)
    ELSE LET result == recognize_face(faces)
             name == result[1]
             msg == result[2]
         IN  IF Truthy(name)
             THEN Outcome(FALSE, result, <<>>,
                          <<LogArgs(name, "opened", "face")>>,
                          Response(200, [recognized |-> TRUE,
                                         name |-> name,
                                         confidence |-> msg,
                                         access |-> "granted"]))
             ELSE Outcome(FALSE, result, <<>>,
                          <<LogArgs("Unknown", "denied", "face")>>,
                          Response(200, [recognized |-> FALSE,
                                         access |-> "denied"]))

\* recognize_face_api without the guard of lines 185-188: recognize_face
\* answers (None, "No encodings loaded") and the route takes it for a denial.
recognize_face_api_outcome_unguarded(image, faces) ==
    IF encodings_loaded THEN FaceDecision(image, faces)
    ELSE IF image = "missing"
    THEN Outcome(FALSE, <<None, None>>, <<>>, <<>>,
                 Response(400, [error |-> "No image"]))
    ELSE Outcome(FALSE, <<None, "No encodings loaded">>, <<>>,
                 <<LogArgs("Unknown", "denied", "face")>>,
                 Response(200, [recognized |-> FALSE, access |-> "denied"]))

\* POST /api/recognize-face, lines 184-214.
recognize_face_api_outcome(image, faces) ==
    IF ~encodings_loaded
    THEN Outcome(FALSE, <<None, None>>, <<>>, <<>>,
                 Response(503, [error |-> "No face encodings available"]))
    ELSE FaceDecision(image, faces)

\* The effects of a route on the process and on the store.  With no storage
\* handle (mongo_db is None) the log_access call raises AttributeError after
\* the session was stored, and Flask answers 500.
Serve(op, image, qr_data, faces, out, insertOk) ==
    LET raises == Len(out.log) > 0 /\ mongo_db = None
    IN  /\ session_cache' =
              IF Len(out.issue) > 0
              THEN StoreSession(session_cache, out.issue[1])
              ELSE session_cache
        /\ access_logs_collection' =
              IF Len(out.log) = 0 \/ raises
              THEN access_logs_collection
              ELSE log_access(access_logs_collection, out.log[1].user_name,
                              out.log[1].status, out.log[1].access_type,
                              insertOk)
        /\ last' = Call(op, image, qr_data, faces, out.valid, out.match,
                        IF raises THEN ServerError ELSE out.resp)
        /\ UNCHANGED <<users_collection, threads,
                       phase, QR_HASH, MONGO_URI, mongo_db,
                       encodings_collection, known_face_encodings,
                       known_face_names, encodings_loaded, now>>

verify_qr(image, qr_data, insertOk) ==
    /\ phase = "serving"
    /\ Len(access_logs_collection) < MaxLog
    /\ Serve("verify_qr", image, qr_data, <<>>,
             verify_qr_outcome(image, qr_data), insertOk)

recognize_face_api(image, faces, insertOk) ==
    /\ phase = "serving"
    /\ Len(access_logs_collection) < MaxLog
    /\ Serve("recognize_face_api", image, None, faces,
             recognize_face_api_outcome(image, faces), insertOk)

(***************************************************************************)
(* mongo_config.py: the calls made by the enrollment script and by a       *)
(* reader of the log, each through a MongoDBConfig of its own              *)
(***************************************************************************)

\* What the enrollment script saves: migrate_local_to_mongodb passes the name
\* of a directory and the encoding of a picture found in it.
SaveRequests == EncodingDocs

\* A save that also puts the embedding into the gallery.
save_face_encoding_into_gallery(user_name, encoding, insertOk) ==
    /\ phase \in {"boot", "serving"}
    /\ Len(encodings_collection) < MaxDocs
    /\ LET saved == SaveFaceEncoding(users_collection, encodings_collection,
                                     user_name, encoding, insertOk)
       IN  /\ users_collection' = saved.users
           /\ encodings_collection' = saved.coll
           /\ last' = Call("save_face_encoding", None, None, <<>>, FALSE,
                           <<None, None>>, Response(0, [ret |-> saved.ret]))
    /\ known_face_encodings' = Append(known_face_encodings, encoding)
    /\ known_face_names' = Append(known_face_names, user_name)
    /\ UNCHANGED <<threads, phase, QR_HASH, MONGO_URI, mongo_db,
                   access_logs_collection, encodings_loaded, session_cache,
                   now>>

\* save_face_encoding, before the server starts or while it serves.
save_face_encoding(user_name, encoding, insertOk) ==
    /\ phase \in {"boot", "serving"}
    /\ Len(encodings_collection) < MaxDocs
    /\ LET saved == SaveFaceEncoding(users_collection, encodings_collection,
                                     user_name, encoding, insertOk)
       IN  /\ users_collection' = saved.users
           /\ encodings_collection' = saved.coll
           /\ last' = Call("save_face_encoding", None, None, <<>>, FALSE,
                           <<None, None>>, Response(0, [ret |-> saved.ret]))
    /\ UNCHANGED <<threads, phase, QR_HASH, MONGO_URI, mongo_db,
                   access_logs_collection, known_face_encodings,
                   known_face_names, encodings_loaded, session_cache, now>>

LogLimits == {1, 100}
LogQueries == {None, "QR"}

\* get_access_logs: the list it returns is the answer; nothing is written.
read_access_logs(limit, user_name) ==
    /\ phase = "serving"
    /\ last' = Call("get_access_logs", None, None, <<>>, FALSE,
                    <<None, None>>,
                    Response(0, [logs |-> get_access_logs(
                                    access_logs_collection, limit, user_name)]))
    /\ UNCHANGED <<users_collection, threads, phase, QR_HASH, MONGO_URI,
                   mongo_db, encodings_collection, access_logs_collection,
                   known_face_encodings, known_face_names, encodings_loaded,
                   session_cache, now>>

Next ==
    \/ ReadEnv
    \/ initialize_system
    \/ \E raises \in BOOLEAN : load_faces_from_mongo(raises)
    \/ Tick
    \/ home
    \/ status
    \/ \E image \in ImageKinds :
          \E qr_data \in DecodedQr(image), insertOk \in BOOLEAN :
             verify_qr(image, qr_data, insertOk)
    \/ \E image \in ImageKinds :
          \E faces \in DecodedFaces(image), insertOk \in BOOLEAN :
             recognize_face_api(image, faces, insertOk)

Spec == Init /\ [][Next]_vars

(***************************************************************************)
(* The server together with the store it shares: a configured server, a    *)
(* store that starts empty and is filled by the enrollment script before   *)
(* and after the server starts, and a reader of the access log.            *)
(***************************************************************************)
InitStore ==
    /\ Init
    /\ QR_HASH = Sha256("ABC123")
    /\ MONGO_URI # None
    /\ encodings_collection = <<>>

NextStore ==
    \/ ReadEnv
    \/ initialize_system
    \/ \E raises \in BOOLEAN : load_faces_from_mongo(raises)
    \/ status
    \/ \E image \in ImageKinds :
          \E qr_data \in DecodedQr(image), insertOk \in BOOLEAN :
             verify_qr(image, qr_data, insertOk)
    \/ \E image \in ImageKinds :
          \E faces \in DecodedFaces(image), insertOk \in BOOLEAN :
             recognize_face_api(image, faces, insertOk)
    \/ \E doc \in SaveRequests, insertOk \in BOOLEAN :
          save_face_encoding(doc.user_name, doc.encoding, insertOk)
    \/ \E limit \in LogLimits, user_name \in LogQueries :
          read_access_logs(limit, user_name)

SpecStore == InitStore /\ [][NextStore]_vars

(***************************************************************************)
(* The steps that are calls of the two verification routes.  A route       *)
(* records what the request carried in last, so a step is a call of the    *)
(* route exactly when it is the call with the inputs last' holds.          *)
(***************************************************************************)
QrCall(insertOk) ==
    /\ last'.op = "verify_qr"
    /\ verify_qr(last'.image, last'.qr_data, insertOk)

FaceCall(insertOk) ==
    /\ last'.op = "recognize_face_api"
    /\ recognize_face_api(last'.image, last'.faces, insertOk)

VerificationCall(insertOk) == QrCall(insertOk) \/ FaceCall(insertOk)

\* The latest call ran the validator / the matcher on a decodable image.
QrValidated == last.op = "verify_qr" /\ last.image = "ok"

FaceMatched ==
    /\ last.op = "recognize_face_api"
    /\ last.image = "ok"
    /\ last.resp.code # 503

(***************************************************************************)
(* C1                                                                      *)
(***************************************************************************)

\* C1, as stated: for every payload, the empty one included, validate_qr
\* returns true exactly when the payload equals the configured value or its
\* SHA-256 digest does; an absent payload yields false.
C1_ValidateIffEqualOrDigest ==
    QrValidated =>
        (last.valid <=>
            /\ last.qr_data # None
            /\ \/ last.qr_data = QR_HASH
               \/ Sha256(last.qr_data) = QR_HASH)

\* C1, amended: for every non-empty payload validate_qr returns true exactly
\* when the payload equals the configured value verbatim or its SHA-256
\* digest equals the configured value; an absent or empty payload always
\* yields false, also when the configured value is the digest of "".
C1_ValidateNonEmpty ==
    QrValidated =>
        /\ (~Truthy(last.qr_data) => ~last.valid)
        /\ (Truthy(last.qr_data) =>
               (last.valid <=>
                   \/ last.qr_data = QR_HASH
                   \/ Sha256(last.qr_data) = QR_HASH))
        /\ (last.resp.code = 200 => last.resp.body.valid = last.valid)

\* A payload was accepted through its digest, not verbatim.
C1_Witness ==
    /\ QrValidated
    /\ last.valid
    /\ last.qr_data # QR_HASH
    /\ last.resp.code = 200

(***************************************************************************)
(* C2                                                                      *)
(***************************************************************************)

\* The first index of a smallest element of d.
FirstMinimum(d) ==
    CHOOSE i \in 1..Len(d) :
        /\ \A j \in 1..Len(d) : d[i] <= d[j]
        /\ \A j \in 1..(i - 1) : d[j] > d[i]

\* C2: against a loaded gallery, recognize_face returns the name stored at
\* the index of minimum distance exactly when 1 - (minimum distance) is
\* strictly greater than 0.5, and no identity otherwise (a confidence of
\* exactly 0.5 included).
C2_MatchIffAboveThreshold ==
    (FaceMatched /\ Len(last.faces) > 0) =>
        LET d == face_distance(known_face_encodings, last.faces[1])
            i == FirstMinimum(d)
        IN  /\ Len(known_face_encodings) > 0
            /\ IF One - d[i] > Threshold
               THEN last.match[1] = known_face_names[i]
               ELSE last.match[1] = None

\* The nearest stored vector is the second of two, under another name than
\* the first, and its name is returned.
C2_Witness ==
    /\ FaceMatched
    /\ Len(last.faces) > 0
    /\ Len(known_face_names) = 2
    /\ known_face_names[1] # known_face_names[2]
    /\ last.match[1] = known_face_names[2]

(***************************************************************************)
(* C3                                                                      *)
(***************************************************************************)

\* C3, as stated: every call of verify_qr or recognize_face_api leaves the
\* access log exactly one entry longer, whatever its outcome.
C3_OneEntryPerCall ==
    [][(\E insertOk \in BOOLEAN : VerificationCall(insertOk))
       => Len(access_logs_collection') = Len(access_logs_collection) + 1]_vars

\* C3, amended: a call of verify_qr or recognize_face_api that returns an
\* access decision (valid true or false, recognized true or false) makes
\* exactly one log_access call, which leaves the access log exactly one entry
\* longer when its insert succeeds and unchanged when it fails; a call
\* answered with an error (400, 500, 503) appends nothing.
C3_OneEntryPerLoggedDecision ==
    [][\A insertOk \in BOOLEAN :
          VerificationCall(insertOk) =>
              Len(access_logs_collection') =
                  Len(access_logs_collection)
                  + (IF last'.resp.code = 200 /\ insertOk THEN 1 ELSE 0)]_vars

\* A frame without a face was answered with a denial and logged as one.
C3_Witness ==
    /\ FaceMatched
    /\ last.match[2] = "No face detected"
    /\ last.resp.code = 200
    /\ Len(access_logs_collection) > 0
    /\ access_logs_collection[Len(access_logs_collection)] =
          [user_name |-> "Unknown", status |-> "denied",
           access_type |-> "face", confidence |-> None]

(***************************************************************************)
(* C4                                                                      *)
(***************************************************************************)

\* C4: whatever becomes of the log write, and whether or not the storage
\* collaborator is there, a verification request with a decodable image is
\* answered with its access decision: valid and session_id for a QR request,
\* recognized and access for a face request against a loaded gallery.
C4_DecisionWhateverTheStorage ==
    /\ QrValidated =>
          /\ last.resp.code = 200
          /\ last.resp.body.valid = last.valid
          /\ ("session_id" \in DOMAIN last.resp.body) = last.valid
    /\ FaceMatched =>
          /\ last.resp.code = 200
          /\ last.resp.body.recognized = Truthy(last.match[1])

(***************************************************************************)
(* C5                                                                      *)
(***************************************************************************)

\* C5: a verification request is answered only by a process that has both
\* its authorized QR secret and its storage connection.
C5_ServesOnlyWhenConfigured ==
    last.op \in {"verify_qr", "recognize_face_api"} =>
        /\ Truthy(QR_HASH)
        /\ Truthy(MONGO_URI)
        /\ mongo_db # None

(***************************************************************************)
(* C6                                                                      *)
(***************************************************************************)

\* C6: while the gallery is not loaded, every face verification request is
\* answered 503 with the unavailable error and nothing of a decision, writes
\* no access-log entry, and the matcher answers (None, "No encodings loaded")
\* for every frame.
C6_UnavailableNotDenied ==
    [][\A insertOk \in BOOLEAN :
          (FaceCall(insertOk) /\ ~encodings_loaded) =>
              /\ last'.resp = Response(503, [error |-> "No face encodings available"])
              /\ access_logs_collection' = access_logs_collection
              /\ last'.match[1] = None
              /\ \A faces \in Frames :
                    recognize_face(faces) = <<None, "No encodings loaded">>]_vars

\* A frame showing a face was sent to a server with a storage connection
\* and no gallery, and was answered 503.
C6_Witness ==
    /\ last.op = "recognize_face_api"
    /\ last.image = "ok"
    /\ Len(last.faces) = 1
    /\ mongo_db # None
    /\ ~encodings_loaded
    /\ last.resp.code = 503

(***************************************************************************)
(* C7                                                                      *)
(***************************************************************************)

\* C7: every successful QR verification returns a non-empty session id that
\* was not in the session mapping before, so the mapping gains exactly one
\* key.
C7_FreshSessionId ==
    [][\A insertOk \in BOOLEAN :
          (QrCall(insertOk) /\ last'.resp.code = 200 /\ last'.resp.body.valid) =>
              /\ last'.resp.body.session_id # ""
              /\ last'.resp.body.session_id \notin DOMAIN session_cache
              /\ Cardinality(DOMAIN session_cache') =
                    Cardinality(DOMAIN session_cache) + 1]_vars

(***************************************************************************)
(* C8                                                                      *)
(***************************************************************************)

\* C8: a session id that is in the session mapping is in it, with the value
\* True, after every step: no route and no reload removes or clears it.
C8_SessionsStay ==
    [][\A s \in DOMAIN session_cache :
          /\ s \in DOMAIN session_cache'
          /\ session_cache'[s] = TRUE]_vars

\* Two sessions are recorded, and a call that issues none came after them.
C8_Witness ==
    /\ Cardinality(DOMAIN session_cache) = 2
    /\ \A s \in DOMAIN session_cache : session_cache[s] = TRUE
    /\ last.op = "recognize_face_api"

(***************************************************************************)
(* C9                                                                      *)
(***************************************************************************)

\* C9: a QR response carries a session_id exactly when it says valid: true,
\* and that id is then recorded as True; a verify_qr call stores a session
\* exactly when its validation succeeded; no other step changes the session
\* mapping.
C9_SessionIffValid ==
    [][/\ \A insertOk \in BOOLEAN :
             QrCall(insertOk) =>
                 LET body == last'.resp.body
                 IN  /\ ("session_id" \in DOMAIN body)
                           <=> ("valid" \in DOMAIN body /\ body.valid)
                     /\ "session_id" \in DOMAIN body =>
                           /\ body.session_id \in DOMAIN session_cache'
                           /\ session_cache'[body.session_id] = TRUE
                     /\ last'.valid =>
                           \E s \in DOMAIN session_cache' :
                              /\ session_cache'[s] = TRUE
                              /\ DOMAIN session_cache' =
                                    DOMAIN session_cache \cup {s}
                     /\ ~last'.valid => session_cache' = session_cache
       /\ session_cache' # session_cache =>
             \E insertOk \in BOOLEAN : QrCall(insertOk) /\ last'.valid]_vars

\* A QR request was answered valid: true with a recorded session.
C9_Witness ==
    /\ QrValidated
    /\ last.resp.code = 200
    /\ last.resp.body.valid
    /\ last.resp.body.session_id \in DOMAIN session_cache

(***************************************************************************)
(* C10                                                                     *)
(***************************************************************************)

\* C10: a face request evaluated against a loaded gallery is answered
\* recognized: true and access: "granted" exactly when the matcher accepted a
\* match, whatever the owner name; name and confidence are in the response
\* exactly when recognized is true, and access is "denied" otherwise.
C10_GrantedIffMatched ==
    (FaceMatched /\ last.resp.code = 200) =>
        LET body == last.resp.body
            accepted == last.match[1] # None
        IN  /\ body.recognized <=> accepted
            /\ body.access = (IF accepted THEN "granted" ELSE "denied")
            /\ ("name" \in DOMAIN body) <=> body.recognized
            /\ ("confidence" \in DOMAIN body) <=> body.recognized

(***************************************************************************)
(* C11                                                                     *)
(***************************************************************************)

\* The steps that are calls of load_faces_from_mongo on the running server,
\* with a fetch that raises or one that does not.
LoadCall(raises) ==
    /\ last'.op = "load_faces_from_mongo"
    /\ load_faces_from_mongo(raises)

\* C11, as stated: after every call of load_faces_from_mongo the loaded flag
\* is true exactly when that call's fetch returned at least one pair, and a
\* fetch of zero pairs leaves the flag false and the gallery empty, also
\* when an earlier load had populated the gallery.
C11_LoadedIffFetched ==
    [][\A raises \in BOOLEAN :
          LoadCall(raises) =>
             LET fetched == get_all_face_encodings(encodings_collection, raises)
             IN  /\ encodings_loaded' <=> Len(fetched[1]) > 0
                 /\ Len(fetched[1]) = 0 =>
                        /\ known_face_encodings' = <<>>
                        /\ known_face_names' = <<>>]_vars

(***************************************************************************)
(* C13                                                                     *)
(***************************************************************************)

\* C13, as stated: a QR or face verification request with an input error
\* (no image in the payload, or an image that cannot be decoded) is answered
\* with a client-input error (a 4xx status), appends no access-log entry
\* and issues no session.
C13_InputErrorIsClientError ==
    [][\A insertOk \in BOOLEAN :
          (VerificationCall(insertOk) /\ last'.image # "ok") =>
             /\ last'.resp.code \in 400..499
             /\ access_logs_collection' = access_logs_collection
             /\ session_cache' = session_cache]_vars

(***************************************************************************)
(* C14                                                                     *)
(***************************************************************************)

\* What a response tells the caller.
Grants(resp) ==
    /\ resp.code = 200
    /\ \/ "valid" \in DOMAIN resp.body /\ resp.body.valid
       \/ "access" \in DOMAIN resp.body /\ resp.body.access = "granted"

Denies(resp) ==
    /\ resp.code = 200
    /\ \/ "valid" \in DOMAIN resp.body /\ ~resp.body.valid
       \/ "access" \in DOMAIN resp.body /\ resp.body.access = "denied"

\* The call ended in a decision non-match: a decodable image in which the
\* validator found no QR code or the wrong one, or in which the matcher
\* (with a loaded gallery) found no face or none above the threshold.
NonMatch(call) ==
    /\ call.image = "ok"
    /\ \/ call.op = "verify_qr" /\ ~call.valid
       \/ /\ call.op = "recognize_face_api"
          /\ encodings_loaded
          /\ call.match[1] = None

\* C14, as stated: every decision non-match is answered with a normal deny
\* response and appends an entry with outcome denied; an entry with outcome
\* opened is appended only by a call whose response grants access; the
\* outcome logged agrees with the decision returned.
C14_LoggedOutcomeIsDecision ==
    [][\A insertOk \in BOOLEAN :
          VerificationCall(insertOk) =>
             LET n == Len(access_logs_collection')
                 wrote == n = Len(access_logs_collection) + 1
             IN  /\ NonMatch(last') =>
                        /\ Denies(last'.resp)
                        /\ wrote
                        /\ access_logs_collection'[n].status = "denied"
                 /\ wrote =>
                        /\ access_logs_collection'[n].status = "opened"
                              <=> Grants(last'.resp)
                        /\ access_logs_collection'[n].status = "denied"
                              <=> Denies(last'.resp)]_vars

(***************************************************************************)
(* C16                                                                     *)
(***************************************************************************)

\* The owner names of the gallery, each counted where it first occurs.
DistinctOwners ==
    Cardinality({i \in 1..Len(known_face_names) :
                    \A j \in 1..(i - 1) :
                       known_face_names[j] # known_face_names[i]})

\* C16: a status query answers 200 with faces_loaded equal to the loaded
\* flag and known_faces equal to the number of distinct owner names of the
\* gallery, and leaves the process, the store and the clock as they were.
C16_StatusReportsGallery ==
    [][(last'.op = "status" /\ last' # last) =>
          /\ last'.resp.code = 200
          /\ last'.resp.body.faces_loaded = encodings_loaded
          /\ last'.resp.body.known_faces = DistinctOwners
          /\ UNCHANGED <<phase, QR_HASH, MONGO_URI, mongo_db,
                         users_collection, encodings_collection,
                         access_logs_collection, known_face_encodings,
                         known_face_names, encodings_loaded, session_cache,
                         now>>]_vars

\* A status query answered from a gallery that holds two embeddings of one
\* owner: one identity is reported.
C16_Witness ==
    /\ last.op = "status"
    /\ Len(known_face_encodings) = 2
    /\ last.resp.body.known_faces = 1
    /\ last.resp.body.faces_loaded

(***************************************************************************)
(* C15                                                                     *)
(***************************************************************************)

\* The gallery after one call of load_faces_from_mongo made in this state,
\* and after a second one made right after it, the store being the same.
AfterOneLoad(raises) ==
    Reloaded(Gallery, get_all_face_encodings(encodings_collection, raises))

AfterTwoLoads(raises1, raises2) ==
    Reloaded(AfterOneLoad(raises1),
             get_all_face_encodings(encodings_collection, raises2))

CanLoad == phase = "serving" /\ mongo_db # None

C17_GalleryWrittenByLoadOnly ==
    [][Gallery' # Gallery =>
          \/ phase = "imported" /\ phase' = "serving"
          \/ \E raises \in BOOLEAN : LoadCall(raises)]_vars

\* An embedding was saved while the server was serving with a loaded
\* gallery, and the gallery does not hold it.
C17_Witness ==
    /\ phase = "serving"
    /\ last.op = "save_face_encoding"
    /\ last.resp.body.ret # None
    /\ encodings_loaded
    /\ Len(known_face_encodings) < Len(encodings_collection)

(***************************************************************************)
(* C18                                                                     *)
(***************************************************************************)

\* C18: across verifications, status queries, loads, saves and log reads,
\* every step leaves each document of the access log where it is and as it
\* is, and the log never gets shorter.
C18_LogAppendOnly ==
    [][/\ Len(access_logs_collection') >= Len(access_logs_collection)
       /\ SubSeq(access_logs_collection', 1, Len(access_logs_collection))
             = access_logs_collection]_vars

\* The log holds two documents and was read, latest first, with a limit of
\* one: the read returned the second document and the log holds both.
C18_Witness ==
    /\ Len(access_logs_collection) = 2
    /\ last.op = "get_access_logs"
    /\ last.resp.body.logs = <<access_logs_collection[2]>>
    /\ access_logs_collection[1] # access_logs_collection[2]

(***************************************************************************)
(* C19                                                                     *)
(***************************************************************************)

\* C19: in every state (a load is one step here, so none is in progress)
\* the two lists of the gallery have one length, and entry i of each was
\* read from document i of the store: known_face_names[i] is the user_name
\* of the document whose encoding is known_face_encodings[i].  The store
\* only grows, so the document read is still the i-th.
C19_GalleryAligned ==
    /\ Len(known_face_encodings) = Len(known_face_names)
    /\ Len(known_face_encodings) <= Len(encodings_collection)
    /\ \A i \in 1..Len(known_face_encodings) :
          /\ encodings_collection[i].encoding = known_face_encodings[i]
          /\ encodings_collection[i].user_name = known_face_names[i]

\* The latest call was a load whose fetch failed: the store holds two
\* documents of different owners and the gallery still holds the first one,
\* loaded earlier.
C19_Witness ==
    /\ last.op = "load_faces_from_mongo"
    /\ encodings_loaded
    /\ Len(known_face_names) = 1
    /\ Len(encodings_collection) = 2
    /\ encodings_collection[1].user_name # encodings_collection[2].user_name

(***************************************************************************)
(* load_faces_from_mongo and recognize_face, statement by statement: one   *)
(* thread is inside a load called on the running server while another      *)
(* handles POST /api/recognize-face for a decodable image of one face.     *)
(* No lock is taken by either function.                                    *)
(***************************************************************************)
config == <<phase, QR_HASH, MONGO_URI, mongo_db>>
store == <<users_collection, encodings_collection, access_logs_collection>>

\* Lines 72-76: the fetch into the locals, and the early return.
reload_fetch(raises) ==
    /\ phase = "serving"
    /\ mongo_db # None
    /\ reloader.pc = "idle"
    /\ LET fetched == get_all_face_encodings(encodings_collection, raises)
       IN  reloader' = IF Len(fetched[1]) = 0 THEN ReloaderIdle
                       ELSE [pc |-> "line78", encodings |-> fetched[1],
                             names |-> fetched[2]]
    /\ UNCHANGED <<config, store, known_face_encodings, known_face_names,
                   encodings_loaded, session_cache, now, last, matcher,
                   enroll>>

\* Line 78: known_face_encodings = encodings
reload_assign_encodings ==
    /\ reloader.pc = "line78"
    /\ known_face_encodings' = reloader.encodings
    /\ reloader' = [reloader EXCEPT !.pc = "line79"]
    /\ UNCHANGED <<config, store, known_face_names, encodings_loaded,
                   session_cache, now, last, matcher, enroll>>

\* Line 79: known_face_names = names
reload_assign_names ==
    /\ reloader.pc = "line79"
    /\ known_face_names' = reloader.names
    /\ reloader' = [reloader EXCEPT !.pc = "line80"]
    /\ UNCHANGED <<config, store, known_face_encodings, encodings_loaded,
                   session_cache, now, last, matcher, enroll>>

\* Line 80: encodings_loaded = True, and the return.
reload_assign_loaded ==
    /\ reloader.pc = "line80"
    /\ encodings_loaded' = TRUE
    /\ reloader' = ReloaderIdle
    /\ UNCHANGED <<config, store, known_face_encodings, known_face_names,
                   session_cache, now, last, matcher, enroll>>

MatcherSteps ==
    UNCHANGED <<config, store, known_face_encodings, known_face_names,
                encodings_loaded, session_cache, now, last, reloader, enroll>>

\* Lines 185-188 of the route: the guard reads encodings_loaded.
match_guard(probe) ==
    /\ phase = "serving"
    /\ matcher.pc = "idle"
    /\ matcher' = IF ~encodings_loaded
                  THEN [MatcherIdle EXCEPT !.pc = "done", !.probe = probe,
                                           !.result = <<None, "503">>]
                  ELSE [MatcherIdle EXCEPT !.pc = "line107", !.probe = probe]
    /\ MatcherSteps

\* Lines 107-108 of recognize_face: encodings_loaded is read again.
match_loaded ==
    /\ matcher.pc = "line107"
    /\ matcher' = IF ~encodings_loaded
                  THEN [matcher EXCEPT !.pc = "done",
                                       !.result = <<None, "No encodings loaded">>]
                  ELSE [matcher EXCEPT !.pc = "line119"]
    /\ MatcherSteps

\* Lines 119-124: known_face_encodings is read and the best match taken.
match_distances ==
    /\ matcher.pc = "line119"
    /\ LET distances == face_distance(known_face_encodings, matcher.probe)
           best_match == argmin(distances)
       IN  matcher' = [matcher EXCEPT !.pc = "line126",
                                      !.encodings = known_face_encodings,
                                      !.best_match = best_match,
                                      !.confidence = One - distances[best_match]]
    /\ MatcherSteps

\* Lines 126-129: known_face_names is read when the confidence is above the
\* threshold; an index past its end raises IndexError.
match_name ==
    /\ matcher.pc = "line126"
    /\ matcher' =
          IF matcher.confidence > Threshold
          THEN [matcher EXCEPT
                   !.pc = "done",
                   !.names = known_face_names,
                   !.result =
                      IF matcher.best_match > Len(known_face_names)
                      THEN <<None, "IndexError">>
                      ELSE <<known_face_names[matcher.best_match],
                             FormatPercent(matcher.confidence)>>]
          ELSE [matcher EXCEPT !.pc = "done",
                               !.result = <<None, "Face not recognized">>]
    /\ MatcherSteps

\* recognize_face has returned; the thread takes the next request.
match_return ==
    /\ matcher.pc = "done"
    /\ matcher' = MatcherIdle
    /\ MatcherSteps

NextReload ==
    \/ ReadEnv
    \/ initialize_system
    \/ \E doc \in SaveRequests, insertOk \in BOOLEAN :
          save_face_encoding(doc.user_name, doc.encoding, insertOk)
    \/ \E raises \in BOOLEAN : reload_fetch(raises)
    \/ reload_assign_encodings
    \/ reload_assign_names
    \/ reload_assign_loaded
    \/ \E probe \in ProbeVectors : match_guard(probe)
    \/ match_loaded
    \/ match_distances
    \/ match_name
    \/ match_return

SpecReload == InitStore /\ [][NextReload]_vars

(***************************************************************************)
(* C12                                                                     *)
(***************************************************************************)

\* The matcher has read both lists of the gallery.
ReadBothLists == matcher.pc = "done" /\ matcher.confidence > Threshold

\* C12, as stated: a match that runs while load_faces_from_mongo runs never
\* reads the vectors of one snapshot together with the names of another:
\* the two lists it read have one length and entry i of each comes from
\* document i of the store.
C12_NoHalfReplacedGallery ==
    ReadBothLists =>
       /\ Len(matcher.encodings) = Len(matcher.names)
       /\ \A i \in 1..Len(matcher.encodings) :
             /\ encodings_collection[i].encoding = matcher.encodings[i]
             /\ encodings_collection[i].user_name = matcher.names[i]

(***************************************************************************)
(* add_user and save_face_encoding, statement by statement: two threads    *)
(* (or processes) call them through MongoDBConfig, each find_one and each  *)
(* insert_one being one step of the store.  The store answers every call.  *)
(***************************************************************************)
EnrollSteps ==
    UNCHANGED <<config, access_logs_collection, known_face_encodings,
                known_face_names, encodings_loaded, session_cache, now, last,
                reloader, matcher>>

\* The calls of save_face_encoding that have not inserted their document.
SavesInFlight ==
    Cardinality({t \in EnrollThreads :
                    enroll[t].op = "save_face_encoding" /\ enroll[t].pc # "idle"})

\* A thread calls add_user(name).
call_add_user(t, name) ==
    /\ enroll[t].pc = "idle"
    /\ enroll' = [enroll EXCEPT ![t] =
                     [EnrollIdle EXCEPT !.pc = "line58", !.op = "add_user",
                                        !.user_name = name]]
    /\ UNCHANGED <<users_collection, encodings_collection>>
    /\ EnrollSteps

\* A thread calls save_face_encoding(user_name, encoding).
call_save_face_encoding(t, user_name, encoding) ==
    /\ enroll[t].pc = "idle"
    /\ Len(encodings_collection) + SavesInFlight < MaxDocs
    /\ enroll' = [enroll EXCEPT ![t] =
                     [EnrollIdle EXCEPT !.pc = "line79",
                                        !.op = "save_face_encoding",
                                        !.user_name = user_name,
                                        !.encoding = encoding]]
    /\ UNCHANGED <<users_collection, encodings_collection>>
    /\ EnrollSteps

\* The identity a thread has in hand: add_user returns it, save_face_encoding
\* goes on to line 82 with it.
Resolved(e, user_id) ==
    IF e.op = "add_user"
    THEN [e EXCEPT !.pc = "idle", !.user_id = user_id, !.ret = user_id]
    ELSE [e EXCEPT !.pc = "line82", !.user_id = user_id]

\* Lines 79-80 of save_face_encoding: the lookup, and add_user when it finds
\* nothing.
enroll_find(t) ==
    /\ enroll[t].pc = "line79"
    /\ LET user == get_user_by_name(users_collection, enroll[t].user_name)
       IN  enroll' = [enroll EXCEPT ![t] =
                        IF Len(user) > 0
                        THEN [@ EXCEPT !.pc = "line82", !.user = user,
                                       !.user_id = user[1]._id]
                        ELSE [@ EXCEPT !.pc = "line58", !.user = user]]
    /\ UNCHANGED <<users_collection, encodings_collection>>
    /\ EnrollSteps

\* Lines 58-64 of add_user: the insert and, when it does not raise, the
\* return of the new identifier.
enroll_insert_user(t) ==
    /\ enroll[t].pc = "line58"
    /\ Len(users_collection) < MaxUsers
    /\ LET result == insert_one_user(users_collection, enroll[t].user_name)
       IN  /\ users_collection' = result.users
           /\ enroll' = [enroll EXCEPT ![t] =
                            IF Len(result.inserted_id) > 0
                            THEN Resolved(@, result.inserted_id[1])
                            ELSE [@ EXCEPT !.pc = "line66", !.raised = TRUE]]
    /\ UNCHANGED encodings_collection
    /\ EnrollSteps

\* Lines 65-67 of add_user: the lookup of the except branch.
enroll_except(t) ==
    /\ enroll[t].pc = "line66"
    /\ LET user == get_user_by_name(users_collection, enroll[t].user_name)
       IN  enroll' = [enroll EXCEPT ![t] =
                        Resolved([@ EXCEPT !.user = user],
                                 IF Len(user) > 0 THEN user[1]._id ELSE None)]
    /\ UNCHANGED <<users_collection, encodings_collection>>
    /\ EnrollSteps

\* Lines 82-91 of save_face_encoding: the insert of the document.
enroll_insert_encoding(t) ==
    /\ enroll[t].pc = "line82"
    /\ encodings_collection' =
          Append(encodings_collection,
                 EncodingDoc(enroll[t].user_id, enroll[t].user_name,
                             enroll[t].encoding))
    /\ enroll' = [enroll EXCEPT ![t] =
                     [@ EXCEPT !.pc = "idle",
                               !.ret = ObjectId(Len(encodings_collection) + 1)]]
    /\ UNCHANGED users_collection
    /\ EnrollSteps

NextEnroll ==
    \E t \in EnrollThreads :
       \/ \E doc \in SaveRequests : call_add_user(t, doc.user_name)
       \/ \E doc \in SaveRequests :
             call_save_face_encoding(t, doc.user_name, doc.encoding)
       \/ enroll_find(t)
       \/ enroll_insert_user(t)
       \/ enroll_except(t)
       \/ enroll_insert_encoding(t)

SpecEnroll == InitStore /\ [][NextEnroll]_vars

(***************************************************************************)
(* C20                                                                     *)
(***************************************************************************)

\* The identifier of the one identity of the name, and nothing else.
IsIdentityOf(user_id, name) ==
    \E i \in 1..Len(users_collection) :
       /\ users_collection[i].name = name
       /\ users_collection[i]._id = user_id

====
